---- MODULE Spec2Model ----
(***************************************************************************)
(* Model of the puter-sdk client: the HTTP transport with its request and  *)
(* response interceptors, the session token with auth.signIn, signOut,     *)
(* setToken and isTwoFactorRequired, the app provisioning workflow         *)
(* (apps.create), the error paths of the resource adapters, the ai.chat    *)
(* request normalizer, the key-value adapter with its backend store,       *)
(* sites.create and fs.rename.                                             *)
(*                                                                         *)
(* JavaScript values are modelled as follows.  None stands for a falsy     *)
(* absent string (undefined, null or the empty string) and Nil for an      *)
(* absent object: every test the code makes on such a value (!x,           *)
(* x || fallback, x?.y) treats them alike.  An error object is a record    *)
(* [cls, message, code, respError] where respError is the value of         *)
(* error.response?.data?.error.                                            *)
(***************************************************************************)
EXTENDS Integers, Sequences, FiniteSets, TLC

VARIABLES
    \* ---- apps.create workflow -------------------------------------------
    pc,                 \* position of the apps.create invocation
    options,            \* the options the caller passed
    net,                \* requests issued so far by the invocation, in order
    replies,            \* replies delivered so far, in order
    app,                \* result of step 1 (const app)
    dirResponse,        \* result of step 2 (const dirResponse)
    subdomainResponse,  \* result of step 3 (const subdomainResponse)
    outcome,            \* how the invocation settled
    \* ---- session ---------------------------------------------------------
    token,              \* client.token
    defaultAuth,        \* client.http.defaults.headers['Authorization']
    signInPc,           \* position of the auth.signIn invocation
    signInOtp,          \* the otp argument of the pending signIn
    signInResult,       \* how the last signIn settled
    signInNet,          \* requests issued by the current or last signIn
    loginAnswer,        \* proceed and next_step of what /login answered it
    signedOut,          \* signOut returned and no signIn or setToken began since
    twoFactorPc,        \* position of the isTwoFactorRequired invocation
    twoFactorReply,     \* the backend's reply to its /login request
    twoFactorResult,    \* how the last isTwoFactorRequired settled
    sent,               \* outgoing requests, each with the header it carried
    lastOp,             \* the two session operations that completed last
    \* ---- adapter error paths --------------------------------------------
    call,               \* the adapter method invoked and the reply it got
    thrown,             \* what the method threw (Nil when it resolved)
    \* ---- ai.chat ---------------------------------------------------------
    chatPc,             \* position of the ai.chat invocation
    chatArgs,           \* the positional arguments of the invocation
    chatNet,            \* HTTP requests issued by the invocation
    uploadCalls,        \* invocations of client.fs.upload made by it
    chatReply,          \* the backend's reply to the chat request
    chatOutcome,        \* how the invocation settled
    \* ---- kv ---------------------------------------------------------------
    kvStore,            \* the backend's key-value store
    kvPc,               \* position of the kv invocation
    kvCall,             \* the method invoked and its arguments
    kvNet,              \* requests issued by the invocation
    kvOutcome,          \* how the invocation settled
    kvLog,              \* the invocations the backend carried out, in order
    \* ---- sites.create ---------------------------------------------------
    subdomains,         \* the subdomain names the backend holds
    sitePc,             \* position of each sites.create invocation
    siteArgs,           \* the options each invocation was called with
    siteNet,            \* requests issued by each invocation, in order
    existing,           \* the listing each invocation received (const existing)
    siteOutcome,        \* how each invocation settled
    \* ---- fs.rename ------------------------------------------------------
    renamePc,           \* position of the fs.rename invocation
    renameArgs,         \* oldPath and newPath
    renameNet,          \* requests issued by the invocation, in order
    statResponse,       \* what /stat answered (const statResponse)
    renameOutcome       \* how the invocation settled

appVars  == <<pc, options, net, replies, app, dirResponse, subdomainResponse, outcome>>
signInVars    == <<signInNet, loginAnswer, signedOut>>
twoFactorVars == <<twoFactorPc, twoFactorReply, twoFactorResult>>
authVars == <<token, defaultAuth, signInPc, signInOtp, signInResult, sent, lastOp,
              signInVars, twoFactorVars>>
errVars  == <<call, thrown>>
chatVars == <<chatPc, chatArgs, chatNet, uploadCalls, chatReply, chatOutcome>>
kvVars   == <<kvStore, kvPc, kvCall, kvNet, kvOutcome, kvLog>>
siteVars == <<subdomains, sitePc, siteArgs, siteNet, existing, siteOutcome>>
renameVars == <<renamePc, renameArgs, renameNet, statResponse, renameOutcome>>
adapterVars == <<kvVars, siteVars, renameVars>>
vars     == <<appVars, authVars, errVars, chatVars, adapterVars>>

----------------------------------------------------------------------------
\* Values

\* A missing string (undefined, null or '').
None == "none"

\* A missing object or array (undefined or null).
Nil == <<>>

\* Bounds of the model: how many distinct backend messages, tokens and
\* random directory names are drawn.
MaxMessages == 1
MaxTokens == 2
MaxUuids == 1

Messages == {"M" \o ToString(i) : i \in 1..MaxMessages}
Codes == {"APP_EXISTS", "SERVER_ERROR"}

\* The error object of a backend envelope: {code, message}, either may be
\* missing.
ErrBodies == [code : Codes \cup {None}, message : Messages \cup {None}]

\* x || y
Or(x, y) == IF x = None THEN y ELSE x

----------------------------------------------------------------------------
\* Errors

NewError(message) ==
    [cls |-> "Error", message |-> message, code |-> None, respError |-> Nil]

\* new PuterError(error) for an error object {code, message}
PuterError(error) ==
    [cls |-> "PuterError",
     message |-> Or(error.message, "An error occurred"),
     code |-> Or(error.code, "UNKNOWN_ERROR"),
     respError |-> Nil]

\* new PuterError(text): the constructor reads .message and .code of a
\* string, both undefined
PuterErrorOfString(text) ==
    [cls |-> "PuterError", message |-> "An error occurred",
     code |-> "UNKNOWN_ERROR", respError |-> Nil]

\* The transport library's own error: no response at all (network failure)
\* or a response whose body has no error member.
AxiosError(message) ==
    [cls |-> "AxiosError", message |-> message, code |-> None, respError |-> Nil]

TypeError(message) ==
    [cls |-> "TypeError", message |-> message, code |-> None, respError |-> Nil]

----------------------------------------------------------------------------
\* Transport

\* A reply of the backend to one request.
OkReply(data)     == [kind |-> "ok", data |-> data, error |-> Nil]
HttpError(body)   == [kind |-> "http", data |-> Nil, error |-> body]
NetworkFailure    == [kind |-> "network", data |-> Nil, error |-> Nil]

FailureReplies == {HttpError(b) : b \in ErrBodies \cup {Nil}} \cup {NetworkFailure}

Resolved(value) == [ok |-> TRUE, value |-> value]
Rejected(error) == [ok |-> FALSE, error |-> error]

\* The response interceptor: unwraps response.data; turns an HTTP error
\* whose body has an error member into a PuterError; passes every other
\* failure on unchanged.
Interceptor(reply) ==
    IF reply.kind = "ok" THEN Resolved(reply.data)
    ELSE IF reply.kind = "http" /\ reply.error # Nil
         THEN Rejected(PuterError(reply.error))
         ELSE IF reply.kind = "http"
              THEN Rejected(AxiosError("Request failed"))
              ELSE Rejected(AxiosError("Network Error"))

----------------------------------------------------------------------------
\* Catch blocks of the adapters

CatchMessageDropped(error, fallback) ==
    IF error.respError # Nil THEN PuterError(error.respError)
    ELSE NewError(fallback)

\* catch (error) { if (error.response?.data?.error) throw new PuterError(..);
\*                 throw new Error(error.message || fallback); }
CatchMessage(error, fallback) ==
    IF error.respError # Nil THEN PuterError(error.respError)
    ELSE NewError(Or(error.message, fallback))

\* catch (error) { if (error.response?.data?.error) throw new PuterError(..);
\*                 throw new Error(text); }
CatchFixed(error, text) ==
    IF error.respError # Nil THEN PuterError(error.respError)
    ELSE NewError(text)

\* catch (error) { if (error instanceof PuterError) throw error; ...message }
CatchInstanceOf(error, fallback) ==
    IF error.cls = "PuterError" THEN error ELSE CatchMessage(error, fallback)

----------------------------------------------------------------------------
\* apps.create: requests

INTERFACE_APPS == "puter-apps"
INTERFACE_SUBDOMAINS == "puter-subdomains"

Uuids == {"uuid" \o ToString(i) : i \in 1..MaxUuids}

\* The option bags a caller passes: name may be missing, url defaults to ''.
CreateOptions == [name : {None, "myapp"}, url : {None, "https://test.app"}]

Request(url, interface, method, args) ==
    [url |-> url, interface |-> interface, method |-> method, args |-> args]

\* createAppRecord: the create call of the app resource.
RecordRequest(opts) ==
    Request("/drivers/call", INTERFACE_APPS, "create",
            [name |-> opts.name, index_url |-> opts.url, title |-> opts.name,
             maximize_on_start |-> FALSE, background |-> FALSE,
             window_resizable |-> TRUE, dedupe_name |-> TRUE])

\* createAppDirectory: parent `/${owner}/AppData/${uid}`, leaf `app-${uuid}`.
MkdirRequest(a, uuid) ==
    Request("/mkdir", None, None,
            [parent |-> <<a.owner, "AppData", a.uid>>, path |-> <<"app", uuid>>,
             overwrite |-> TRUE, dedupe_name |-> FALSE,
             create_missing_parents |-> TRUE])

\* `${app.name}-${dirResponse.uid.split('-')[0]}`: a uid is the sequence of
\* its '-'-separated segments.
SubdomainName(a, dir) == <<a.name, dir.uid[1]>>

\* hosting.create: the create call of the subdomain resource.
SubdomainRequest(subdomain, rootDir) ==
    Request("/drivers/call", INTERFACE_SUBDOMAINS, "create",
            [subdomain |-> subdomain, root_dir |-> rootDir])

\* updateAppWithSubdomain: index_url `https://${subdomainName}.puter.site`.
UpdateRequest(a, subdomainName) ==
    Request("/drivers/call", INTERFACE_APPS, "update",
            [id |-> a.name,
             index_url |-> "https://" \o subdomainName \o ".puter.site",
             title |-> a.name])

\* Which of the four steps a request belongs to.
StepOf(req) ==
    IF req.url = "/mkdir" THEN 2
    ELSE IF req.interface = INTERFACE_SUBDOMAINS /\ req.method = "create" THEN 3
    ELSE IF req.interface = INTERFACE_APPS /\ req.method = "create" THEN 1
    ELSE IF req.interface = INTERFACE_APPS /\ req.method = "update" THEN 4
    ELSE 0

----------------------------------------------------------------------------
\* apps.create: backend replies

\* The {success, result, error} envelope of /drivers/call.
Envelope(success, result, error) ==
    [success |-> success, result |-> result, error |-> error]

Envelopes(results) ==
    {Envelope(s, r, e) : s \in BOOLEAN, r \in results, e \in ErrBodies \cup {Nil}}

AppRecords == [uid : {None, "app-123"}, name : {"myapp-1"},
               owner : {None, "testuser"}, index_url : {"https://test.app"}]

DirUid == <<"dir", "123">>
DirHandles == [uid : {Nil, DirUid}, path : {None, "/testuser/AppData/app-123/app-dir"}]

SubdomainRecords == [uid : {"sd-1"}, subdomain : {None, "myapp-1-dir"}]

RecordReplies    == {OkReply(d) : d \in Envelopes(AppRecords \cup {Nil})} \cup FailureReplies
DirReplies       == {OkReply(d) : d \in DirHandles} \cup FailureReplies
SubdomainReplies == {OkReply(d) : d \in Envelopes(SubdomainRecords \cup {Nil})} \cup FailureReplies
LinkReplies      == {OkReply(d) : d \in Envelopes({Nil})} \cup FailureReplies

----------------------------------------------------------------------------
\* apps.create: the steps

CreateAppRecordResultNoSuccessCheck(settled) ==
    IF ~settled.ok THEN settled
    ELSE LET response == settled.value IN
         IF response.error # Nil THEN Rejected(PuterError(response.error))
         ELSE IF response.result = Nil
              THEN Rejected(NewError("Failed to create app record"))
              ELSE Resolved(response.result)

\* createAppRecord, after the await: what it returns or throws.
CreateAppRecordResult(settled) ==
    IF ~settled.ok THEN settled
    ELSE LET response == settled.value IN
         IF response.error # Nil THEN Rejected(PuterError(response.error))
         ELSE IF ~response.success \/ response.result = Nil
              THEN Rejected(NewError("Failed to create app record"))
              ELSE Resolved(response.result)

ValidAppRecordAny(a) == TRUE

\* createAppDirectory's guard: app?.owner?.username and app?.uid are set.
ValidAppRecord(a) == a.owner # None /\ a.uid # None

\* createAppDirectory, after the await: the response must carry a uid.
CreateAppDirectoryResult(settled) ==
    IF ~settled.ok THEN settled
    ELSE IF settled.value.uid = Nil
         THEN Rejected(NewError("Failed to create app directory"))
         ELSE settled

\* hosting.create's guard, before its try block.
HostingCreateArgsOk(subdomain, rootDir) == subdomain # Nil /\ rootDir # None

HostingCreateResultNoCheck(settled) ==
    IF ~settled.ok
    THEN Rejected(CatchMessage(settled.error, "Failed to create subdomain"))
    ELSE Resolved(settled.value.result)

\* hosting.create, after the await: a success:false envelope is thrown as an
\* Error inside the try block and so passes through the catch block, like a
\* failure of the request itself.
HostingCreateResult(settled) ==
    IF ~settled.ok
    THEN Rejected(CatchMessage(settled.error, "Failed to create subdomain"))
    ELSE LET response == settled.value IN
         IF ~response.success
         THEN Rejected(CatchMessage(
                  NewError(Or(IF response.error = Nil THEN None
                                 ELSE response.error.message,
                              "Failed to create subdomain")),
                  "Failed to create subdomain"))
         ELSE Resolved(response.result)

\* subdomainResponse?.subdomain
SubdomainOf(sub) == IF sub = Nil THEN None ELSE sub.subdomain

\* updateAppWithSubdomain, after the await.
UpdateAppResult(settled) ==
    IF ~settled.ok THEN settled
    ELSE IF ~settled.value.success
         THEN Rejected(NewError("Failed to update app with subdomain URL"))
         ELSE settled

CreateResultWithoutDirectory(a, dir, sub) ==
    [uid |-> a.uid, name |-> a.name, owner |-> a.owner, index_url |-> a.index_url,
     directory |-> Nil, subdomain |-> sub]

\* the value create resolves with: {...app, directory, subdomain}
CreateResult(a, dir, sub) ==
    [uid |-> a.uid, name |-> a.name, owner |-> a.owner, index_url |-> a.index_url,
     directory |-> dir, subdomain |-> sub]

\* create's catch block.
CreateCatch(error) ==
    IF error.respError # Nil /\ error.respError.code = "APP_EXISTS"
    THEN NewError("App already exists")
    ELSE IF error.cls = "PuterError" THEN error
         ELSE NewError(Or(error.message, "Failed to create app"))

\* The invocation ends in failure: the catch block rethrows and nothing
\* else is requested.
FailWith(error) ==
    /\ pc' = "Failed"
    /\ outcome' = Rejected(error)
    /\ net' = net

CreateWithoutNameCheck(opts) ==
    /\ pc = "Idle"
    /\ options' = opts
    /\ pc' = "RecordCreating"
    /\ net' = Append(net, RecordRequest([opts EXCEPT !.url = Or(opts.url, "")]))
    /\ UNCHANGED <<outcome, replies, app, dirResponse, subdomainResponse>>
    /\ UNCHANGED <<authVars, errVars, chatVars, adapterVars>>

\* apps.create(options), up to its first await.
Create(opts) ==
    /\ pc = "Idle"
    /\ options' = opts
    /\ IF opts.name = None
       THEN /\ pc' = "Failed"
            /\ outcome' = Rejected(NewError("App name is required"))
            /\ net' = net
       ELSE /\ pc' = "RecordCreating"
            /\ net' = Append(net, RecordRequest([opts EXCEPT !.url = Or(opts.url, "")]))
            /\ outcome' = outcome
    /\ UNCHANGED <<replies, app, dirResponse, subdomainResponse>>
    /\ UNCHANGED <<authVars, errVars, chatVars, adapterVars>>

\* The reply to step 1 arrives; on success step 2 is requested.
RecordReply(r, uuid) ==
    /\ pc = "RecordCreating"
    /\ replies' = Append(replies, r)
    /\ LET res == CreateAppRecordResult(Interceptor(r)) IN
       IF ~res.ok
       THEN FailWith(CreateCatch(res.error)) /\ app' = app
       ELSE /\ app' = res.value
            /\ IF ~ValidAppRecord(res.value)
               THEN FailWith(CreateCatch(NewError("Invalid app record")))
               ELSE /\ pc' = "DirectoryCreating"
                    /\ net' = Append(net, MkdirRequest(res.value, uuid))
                    /\ outcome' = outcome
    /\ UNCHANGED <<options, dirResponse, subdomainResponse>>
    /\ UNCHANGED <<authVars, errVars, chatVars, adapterVars>>

\* The reply to step 2 arrives; on success step 3 is requested through
\* hosting.create.
DirReply(r) ==
    /\ pc = "DirectoryCreating"
    /\ replies' = Append(replies, r)
    /\ LET res == CreateAppDirectoryResult(Interceptor(r)) IN
       IF ~res.ok
       THEN FailWith(CreateCatch(res.error)) /\ dirResponse' = dirResponse
       ELSE /\ dirResponse' = res.value
            /\ IF ~HostingCreateArgsOk(SubdomainName(app, res.value), res.value.path)
               THEN FailWith(CreateCatch(
                        NewError("Subdomain and root directory are required")))
               ELSE /\ pc' = "SubdomainCreating"
                    /\ net' = Append(net, SubdomainRequest(
                                  SubdomainName(app, res.value), res.value.path))
                    /\ outcome' = outcome
    /\ UNCHANGED <<options, app, subdomainResponse>>
    /\ UNCHANGED <<authVars, errVars, chatVars, adapterVars>>

\* The reply to step 3 arrives; on success step 4 is requested.
SubdomainReply(r) ==
    /\ pc = "SubdomainCreating"
    /\ replies' = Append(replies, r)
    /\ LET res == HostingCreateResult(Interceptor(r)) IN
       IF ~res.ok
       THEN FailWith(CreateCatch(res.error)) /\ subdomainResponse' = subdomainResponse
       ELSE /\ subdomainResponse' = res.value
            /\ pc' = "Linking"
            /\ net' = Append(net, UpdateRequest(app, SubdomainOf(res.value)))
            /\ outcome' = outcome
    /\ UNCHANGED <<options, app, dirResponse>>
    /\ UNCHANGED <<authVars, errVars, chatVars, adapterVars>>

\* The reply to step 4 arrives; on success create resolves.
LinkReply(r) ==
    /\ pc = "Linking"
    /\ replies' = Append(replies, r)
    /\ LET res == UpdateAppResult(Interceptor(r)) IN
       IF ~res.ok
       THEN FailWith(CreateCatch(res.error))
       ELSE /\ pc' = "Done"
            /\ outcome' = Resolved(CreateResult(app, dirResponse, subdomainResponse))
            /\ net' = net
    /\ UNCHANGED <<options, app, dirResponse, subdomainResponse>>
    /\ UNCHANGED <<authVars, errVars, chatVars, adapterVars>>

----------------------------------------------------------------------------
\* Session: token, default headers, request interceptor

Tokens == {"token" \o ToString(i) : i \in 1..MaxTokens}

\* `Bearer ${token}`; a null, undefined or empty token still yields a header
\* ('Bearer null', 'Bearer undefined', 'Bearer ').
Bearer(t) == <<"Bearer", t>>

\* The Authorization header an outgoing request carries: the instance
\* default when there is one, else the header the request interceptor adds
\* when this.token is set.
RequestAuthorization ==
    IF defaultAuth # Nil THEN defaultAuth
    ELSE IF token # None THEN Bearer(token)
    ELSE Nil

\* The record of an outgoing request: the header it carried, the token at
\* the time, and the session operations that had completed last.
Outgoing(url) ==
    [url |-> url, auth |-> RequestAuthorization, token |-> token,
     after |-> lastOp]

Completed(op) == [prev |-> lastOp.last, last |-> op]

\* auth.isSignedIn(): whether the client holds a token.
IsSignedIn == token # None

\* client.setToken(token)
SetToken(t) ==
    /\ token' = t
    /\ defaultAuth' = Bearer(t)
    /\ lastOp' = Completed("setToken")
    /\ signedOut' = FALSE
    /\ UNCHANGED <<signInPc, signInOtp, signInResult, sent>>
    /\ UNCHANGED <<signInNet, loginAnswer, twoFactorVars>>
    /\ UNCHANGED <<appVars, errVars, chatVars, adapterVars>>

SignOutHeadersKept == defaultAuth

\* delete this.client.http.defaults.headers['Authorization']
SignOutHeaders == Nil

\* auth.signOut()
SignOut ==
    /\ token' = None
    /\ defaultAuth' = SignOutHeaders
    /\ lastOp' = Completed("signOut")
    /\ signedOut' = TRUE
    /\ UNCHANGED <<signInPc, signInOtp, signInResult, sent>>
    /\ UNCHANGED <<signInNet, loginAnswer, twoFactorVars>>
    /\ UNCHANGED <<appVars, errVars, chatVars, adapterVars>>

\* Any request of an adapter other than those of signIn.
SendRequest ==
    /\ sent' = Outgoing("/whoami")
    /\ UNCHANGED <<token, defaultAuth, signInPc, signInOtp, signInResult, lastOp>>
    /\ UNCHANGED <<signInVars, twoFactorVars>>
    /\ UNCHANGED <<appVars, errVars, chatVars, adapterVars>>

----------------------------------------------------------------------------
\* auth.signIn

Credentials == [username : {None, "user"}, password : {"pass"}, otp : {None, "123456"}]

LoginErrBodies == [code : {"INVALID_OTP", "SERVER_ERROR"}, message : Messages \cup {None}]

\* The bodies /login and /login/otp answer with.
LoginBodies ==
    [proceed : BOOLEAN, next_step : {None, "otp", "complete", "captcha"},
     token : Tokens \cup {None}, error : LoginErrBodies \cup {Nil}]

LoginReplies == {OkReply(d) : d \in LoginBodies} \cup FailureReplies

NeedsOtpAnyStep(response) == response.proceed

\* response.proceed && response.next_step === 'otp'
NeedsOtp(response) == response.proceed /\ response.next_step = "otp"

SignInCheckTokenOptional(response) ==
    IF response.proceed /\ response.next_step # None /\ response.next_step # "complete"
    THEN Rejected(NewError("Unsupported authentication step: " \o response.next_step))
    ELSE IF ~response.proceed
         THEN Rejected(NewError("Authentication failed: Invalid credentials"))
         ELSE Resolved(response)

\* The checks signIn makes on the final response, inside its try block.
SignInCheck(response) ==
    IF response.proceed /\ response.next_step # None /\ response.next_step # "complete"
    THEN Rejected(NewError("Unsupported authentication step: " \o response.next_step))
    ELSE IF ~response.proceed \/ response.token = None
         THEN IF response.error # Nil /\ response.error.code = "INVALID_OTP"
              THEN Rejected(NewError(Or(response.error.message, "Invalid OTP code")))
              ELSE Rejected(NewError("Authentication failed: Invalid credentials"))
         ELSE Resolved(response)

\* signIn's catch block.
SignInCatch(error) == CatchMessage(error, "Authentication failed")

\* signIn settles on the final response: on success the token and the
\* default header are written.
SignInSettle(res) ==
    /\ signInPc' = "Idle"
    /\ signInOtp' = None
    /\ signInNet' = signInNet
    /\ signedOut' = signedOut
    /\ IF res.ok
       THEN /\ token' = res.value.token
            /\ defaultAuth' = Bearer(res.value.token)
            /\ signInResult' = res
            /\ lastOp' = Completed("signIn")
       ELSE /\ signInResult' = Rejected(SignInCatch(res.error))
            /\ UNCHANGED <<token, defaultAuth, lastOp>>

\* auth.signIn(username, password, otp), up to its first await.
SignIn(cred) ==
    /\ signInPc = "Idle"
    /\ IF token # None
       THEN /\ signInResult' = Resolved(Nil)
            /\ signInNet' = <<>>
            /\ UNCHANGED <<signInPc, signInOtp, sent>>
       ELSE IF cred.username = None \/ cred.password = None
            THEN /\ signInResult' = Rejected(NewError("Username and password are required"))
                 /\ signInNet' = <<>>
                 /\ UNCHANGED <<signInPc, signInOtp, sent>>
            ELSE /\ signInPc' = "Login"
                 /\ signInOtp' = cred.otp
                 /\ sent' = Outgoing("/login")
                 /\ signInNet' = <<"/login">>
                 /\ signInResult' = Nil
    /\ loginAnswer' = Nil
    /\ signedOut' = FALSE
    /\ UNCHANGED <<token, defaultAuth, lastOp, twoFactorVars>>
    /\ UNCHANGED <<appVars, errVars, chatVars, adapterVars>>

\* The reply to /login arrives.
LoginReply(r) ==
    /\ signInPc = "Login"
    /\ LET settled == Interceptor(r) IN
       IF ~settled.ok
       THEN SignInSettle(settled) /\ sent' = sent /\ loginAnswer' = loginAnswer
       ELSE /\ loginAnswer' = [proceed |-> r.data.proceed, next_step |-> r.data.next_step]
            /\ IF NeedsOtp(settled.value)
               THEN IF signInOtp = None
                    THEN SignInSettle(Rejected(NewError("2FA required - OTP is needed")))
                         /\ sent' = sent
                    ELSE /\ signInPc' = "Otp"
                         /\ sent' = Outgoing("/login/otp")
                         /\ signInNet' = Append(signInNet, "/login/otp")
                         /\ UNCHANGED <<token, defaultAuth, signInOtp, signInResult, lastOp,
                                         signedOut>>
               ELSE SignInSettle(SignInCheck(settled.value)) /\ sent' = sent
    /\ UNCHANGED twoFactorVars
    /\ UNCHANGED <<appVars, errVars, chatVars, adapterVars>>

\* The reply to /login/otp arrives.
OtpReply(r) ==
    /\ signInPc = "Otp"
    /\ LET settled == Interceptor(r) IN
       IF ~settled.ok
       THEN SignInSettle(settled)
       ELSE SignInSettle(SignInCheck(settled.value))
    /\ sent' = sent
    /\ loginAnswer' = loginAnswer
    /\ UNCHANGED twoFactorVars
    /\ UNCHANGED <<appVars, errVars, chatVars, adapterVars>>

TwoFactorResultRethrown(settled) ==
    IF settled.ok THEN Resolved(settled.value.next_step = "otp") ELSE settled

\* isTwoFactorRequired, after the await: response.next_step === 'otp', and
\* false when the request failed.
TwoFactorResult(settled) ==
    IF settled.ok THEN Resolved(settled.value.next_step = "otp") ELSE Resolved(FALSE)

\* client.isTwoFactorRequired(username), up to its await: a /login request
\* with a dummy password.
IsTwoFactorRequired ==
    /\ twoFactorPc = "Idle"
    /\ twoFactorPc' = "Awaiting"
    /\ twoFactorReply' = Nil
    /\ twoFactorResult' = Nil
    /\ sent' = Outgoing("/login")
    /\ UNCHANGED <<token, defaultAuth, signInPc, signInOtp, signInResult, lastOp>>
    /\ UNCHANGED signInVars
    /\ UNCHANGED <<appVars, errVars, chatVars, adapterVars>>

\* The reply to the /login request of isTwoFactorRequired arrives.
TwoFactorReply(r) ==
    /\ twoFactorPc = "Awaiting"
    /\ twoFactorPc' = "Idle"
    /\ twoFactorReply' = r
    /\ twoFactorResult' = TwoFactorResult(Interceptor(r))
    /\ UNCHANGED <<token, defaultAuth, signInPc, signInOtp, signInResult, sent, lastOp>>
    /\ UNCHANGED signInVars
    /\ UNCHANGED <<appVars, errVars, chatVars, adapterVars>>

----------------------------------------------------------------------------
\* Error paths of the adapter methods

\* ai.chat's catch block: new PuterError(message || error, code) is given a
\* string when the backend error has a message.
ChatCatch(error) ==
    IF error.respError # Nil
    THEN IF error.respError.message # None
         THEN PuterErrorOfString(error.respError.message)
         ELSE PuterError(error.respError)
    ELSE NewError(Or(error.message, "Failed to get chat completion"))

\* sites.delete's catch block: `Failed to delete site: ${error.message}`
CatchPrefix(error, prefix) ==
    IF error.respError # Nil THEN PuterError(error.respError)
    ELSE NewError(prefix \o error.message)

Handler(kind, text) == [kind |-> kind, text |-> text]

\* For every public adapter method, the catch blocks a failure of its first
\* request passes through, innermost first.  The filesystem methods have
\* none.
Handlers ==
    [auth_signIn    |-> <<Handler("message", "Authentication failed")>>,
     auth_getUser   |-> <<Handler("fixed", "Failed to get user information")>>,
     usage_getDiskUsage |-> <<Handler("fixed", "Failed to get disk usage information")>>,
     usage_getUsageInfo |-> <<Handler("fixed", "Failed to get usage information")>>,
     fs_readdir     |-> <<>>,
     fs_mkdir       |-> <<>>,
     fs_getInfo     |-> <<>>,
     fs_rename      |-> <<>>,
     fs_upload      |-> <<>>,
     fs_delete      |-> <<>>,
     kv_set         |-> <<Handler("message", "Failed to set value")>>,
     kv_get         |-> <<Handler("message", "Failed to get value")>>,
     kv_del         |-> <<Handler("message", "Failed to delete key")>>,
     kv_incr        |-> <<Handler("message", "Failed to increment value")>>,
     kv_decr        |-> <<Handler("message", "Failed to decrement value")>>,
     kv_flush       |-> <<Handler("message", "Failed to flush storage")>>,
     kv_list        |-> <<Handler("message", "Failed to list keys")>>,
     apps_list      |-> <<Handler("instanceof", "Failed to list apps")>>,
     apps_get       |-> <<Handler("instanceof", "Failed to get app info")>>,
     apps_create    |-> <<Handler("create", "Failed to create app")>>,
     apps_update    |-> <<Handler("instanceof", "Failed to get app info"),
                          Handler("fixed", "Failed to update app")>>,
     apps_delete    |-> <<Handler("instanceof", "Failed to get app info"),
                          Handler("fixed", "Failed to delete app")>>,
     hosting_create |-> <<Handler("message", "Failed to create subdomain")>>,
     hosting_list   |-> <<Handler("fixed", "Failed to list hosting")>>,
     hosting_delete |-> <<Handler("message", "Failed to delete subdomain")>>,
     sites_list     |-> <<Handler("fixed", "Failed to list hosting"),
                          Handler("fixed", "Failed to list sites")>>,
     sites_get      |-> <<Handler("fixed", "Failed to get site info")>>,
     sites_create   |-> <<Handler("fixed", "Failed to list hosting"),
                          Handler("message", "Failed to create site")>>,
     sites_delete   |-> <<Handler("prefix", "Failed to delete site: ")>>,
     ai_chat        |-> <<Handler("chat", "Failed to get chat completion")>>,
     ai_img2txt     |-> <<Handler("message", "OCR processing failed")>>,
     ai_txt2img     |-> <<Handler("message", "Image generation failed")>>,
     ai_listVoices  |-> <<Handler("message", "Failed to list voices")>>,
     ai_txt2speech  |-> <<Handler("message", "Speech synthesis failed")>>,
     ai_listModels  |-> <<Handler("message", "Failed to list models")>>,
     ai_listModelProviders |-> <<Handler("message", "Failed to list model providers")>>]

Methods == DOMAIN Handlers

\* One catch block applied to the error it caught.
Caught(h, error) ==
    IF h.kind = "message" THEN CatchMessage(error, h.text)
    ELSE IF h.kind = "fixed" THEN CatchFixed(error, h.text)
    ELSE IF h.kind = "instanceof" THEN CatchInstanceOf(error, h.text)
    ELSE IF h.kind = "create" THEN CreateCatch(error)
    ELSE IF h.kind = "chat" THEN ChatCatch(error)
    ELSE CatchPrefix(error, h.text)

\* The error the caller sees: the rejection of the transport passed through
\* the catch blocks in turn.
RECURSIVE Propagate(_, _)
Propagate(hs, error) ==
    IF hs = <<>> THEN error ELSE Propagate(Tail(hs), Caught(Head(hs), error))

\* An adapter method is called and the backend fails its first request.
AdapterFailure(m, r) ==
    /\ call' = [method |-> m, reply |-> r]
    /\ thrown' = Propagate(Handlers[m], Interceptor(r).error)
    /\ UNCHANGED <<appVars, authVars, chatVars, adapterVars>>

----------------------------------------------------------------------------
\* ai.chat: arguments

\* Bounds: the longest message sequence and the number of extra positional
\* arguments (the code takes arg2, arg3 and arg4).
MaxMsgs == 2
MaxExtra == 3

INTERFACE_CHAT_COMPLETION == "puter-chat-completion"

\* A message content: a string, an array of content parts, or missing.
StringContent(text) == [t |-> "string", text |-> text, parts |-> <<>>]
ArrayContent(parts) == [t |-> "array", text |-> None, parts |-> parts]
NoContent           == [t |-> "none", text |-> None, parts |-> <<>>]

TextPart(text) == [type |-> "text", v |-> text]
ImagePart(uid) == [type |-> "image_url", v |-> "file://" \o uid]

\* Messages a caller may pass; role None is a missing or non-string role.
ChatMessages ==
    {[role |-> "user", content |-> StringContent("hello")],
     [role |-> "system", content |-> ArrayContent(<<TextPart("rules")>>)],
     [role |-> None, content |-> StringContent("hello")],
     [role |-> "user", content |-> NoContent]}

MessageSeqs == UNION {[1..n -> ChatMessages] : n \in 0..MaxMsgs}

\* The first argument: a string, an array of messages, or anything else.
StringPrompt(text) == [t |-> "string", text |-> text, msgs |-> <<>>]
ArrayPrompt(msgs)  == [t |-> "array", text |-> None, msgs |-> msgs]
OtherPrompt        == [t |-> "other", text |-> None, msgs |-> <<>>]

Prompts == {StringPrompt("Tell me a joke"), OtherPrompt}
               \cup {ArrayPrompt(ms) : ms \in MessageSeqs}

\* An options bag: for each key, its value or that it is missing.  stream
\* is "true", "false", "truthy" (a non-boolean truthy value) or "absent".
NoOptions == [stream |-> "absent", temperature |-> None, messages |-> Nil]

OptionBags ==
    {[NoOptions EXCEPT !.stream = "true"],
     [NoOptions EXCEPT !.stream = "false", !.temperature = "0.5"],
     [NoOptions EXCEPT !.stream = "truthy"],
     [NoOptions EXCEPT !.messages = <<[role |-> "user", content |-> StringContent("other")]>>]}

\* The extra positional arguments by runtime shape.
BooleanArg(b) == [t |-> "boolean", b |-> b, imgs |-> <<>>, opts |-> NoOptions]
StringArg(s)  == [t |-> "string", b |-> FALSE, imgs |-> <<s>>, opts |-> NoOptions]
StringsArg(ss) == [t |-> "strings", b |-> FALSE, imgs |-> ss, opts |-> NoOptions]
ObjectArg(o)  == [t |-> "object", b |-> FALSE, imgs |-> <<>>, opts |-> o]

\* An argument of any other shape (a number, an array that is not all
\* strings): no branch of the loop takes it.
OtherArg      == [t |-> "other", b |-> FALSE, imgs |-> <<>>, opts |-> NoOptions]

ExtraArgs ==
    {BooleanArg(b) : b \in BOOLEAN}
        \cup {StringArg("a.png"), StringsArg(<<"b.png", "c.png">>)}
        \cup {ObjectArg(o) : o \in OptionBags}
        \cup {OtherArg}

\* [arg2, arg3, arg4].filter(arg => arg !== undefined)
ExtraSeqs == UNION {[1..n -> ExtraArgs] : n \in 0..MaxExtra}

----------------------------------------------------------------------------
\* ai.chat: normalization

MergeEarlierWins(o, arg) ==
    [stream |-> IF o.stream # "absent" THEN o.stream ELSE arg.stream,
     temperature |-> IF o.temperature # None THEN o.temperature ELSE arg.temperature,
     messages |-> IF o.messages # Nil THEN o.messages ELSE arg.messages]

\* { ...options, ...arg }: a key of arg replaces the same key of options.
Merge(o, arg) ==
    [stream |-> IF arg.stream # "absent" THEN arg.stream ELSE o.stream,
     temperature |-> IF arg.temperature # None THEN arg.temperature ELSE o.temperature,
     messages |-> IF arg.messages # Nil THEN arg.messages ELSE o.messages]

\* One turn of the loop over the extra arguments.
Classify(acc, arg) ==
    IF arg.t = "boolean" THEN [acc EXCEPT !.testMode = arg.b]
    ELSE IF arg.t \in {"string", "strings"}
         THEN [acc EXCEPT !.imageUrls = acc.imageUrls \o arg.imgs]
         ELSE IF arg.t = "object"
              THEN [acc EXCEPT !.options = Merge(acc.options, arg.opts)]
              ELSE acc

RECURSIVE ClassifyAll(_, _)
ClassifyAll(acc, args) ==
    IF args = <<>> THEN acc ELSE ClassifyAll(Classify(acc, Head(args)), Tail(args))

\* testMode, imageUrls and options after the loop.
Classified(extra) ==
    ClassifyAll([testMode |-> FALSE, imageUrls |-> <<>>, options |-> NoOptions], extra)

\* !!(options && options.stream === true)
IsStream(opts) == opts.stream = "true"

TestModeUnforced(isStream, testMode) == testMode

\* test_mode: isStream ? false : testMode
TestMode(isStream, testMode) == IF isStream THEN FALSE ELSE testMode

\* The message sequence of the first argument.
MessagesOf(prompt) ==
    IF prompt.t = "string"
    THEN <<[role |-> "user", content |-> StringContent(prompt.text)]>>
    ELSE prompt.msgs

\* hasValidRole && hasValidContent
ValidMessage(m) == m.role # None /\ m.content.t \in {"string", "array"}

\* The validation of the message sequence: the error it raises, or Nil.
ValidationError(msgs) ==
    IF msgs = <<>> THEN NewError("At least one message is required.")
    ELSE IF \E i \in 1..Len(msgs) : ~ValidMessage(msgs[i])
         THEN NewError("Invalid message format")
         ELSE Nil

\* fs.upload({file, path, name}) given a string: the destructuring finds no
\* file, and reading file.type throws before anything is posted.
UploadArgOfString(url) == [file |-> Nil, path |-> None, name |-> None]

\* fs.upload up to its post: the request it issues, or what it throws.
FsUpload(arg) ==
    IF arg.file = Nil
    THEN Rejected(TypeError("Cannot read properties of undefined (reading 'type')"))
    ELSE Resolved(Request("/batch", None, None, [path |-> arg.path, name |-> arg.name]))

\* The payload of the chat request: args is {messages, stream (only when
\* streaming), ...restOptions}, so a key of the options bag replaces a key
\* written before it.
ChatPayload(msgs, c) ==
    [url |-> "/drivers/call",
     interface |-> INTERFACE_CHAT_COMPLETION,
     driver |-> "openai-completion",
     test_mode |-> TestMode(IsStream(c.options), c.testMode),
     method |-> "complete",
     args |-> [messages |-> IF c.options.messages # Nil THEN c.options.messages ELSE msgs,
               stream |-> IsStream(c.options),
               temperature |-> c.options.temperature],
     responseType |-> IF IsStream(c.options) THEN "stream" ELSE "json"]

----------------------------------------------------------------------------
\* ai.chat: the call

ChatResults == {[message |-> "Why did the chicken cross the road?"]}

\* Replies to the buffered request: a success envelope with its result, a
\* failure envelope with or without an error object, or a failed request.
ChatReplies ==
    {OkReply(Envelope(TRUE, res, Nil)) : res \in ChatResults}
        \cup {OkReply(Envelope(FALSE, Nil, e)) : e \in ErrBodies \cup {Nil}}
        \cup FailureReplies

\* Replies to the streaming request: the live stream, or a failed request.
StreamReplies == {OkReply([stream |-> TRUE])} \cup FailureReplies

\* The index of the first rejected upload (Promise.all rejects with it).
FirstRejected(ups) ==
    CHOOSE i \in 1..Len(ups) : ~ups[i].ok /\ \A j \in 1..(i - 1) : ups[j].ok

ChatSettle(res) ==
    /\ chatPc' = "Settled"
    /\ chatOutcome' = res

\* ai.chat(prompt, arg2, arg3, arg4), up to its first await.
Chat(prompt, extra) ==
    /\ chatPc = "Idle"
    /\ chatArgs' = [prompt |-> prompt, extra |-> extra]
    /\ IF prompt.t = "other"
       THEN /\ ChatSettle(Rejected(NewError(
                   "The first argument must be a string or an array of messages.")))
            /\ UNCHANGED <<chatNet, uploadCalls>>
       ELSE LET c    == Classified(extra)
                msgs == MessagesOf(prompt)
                ups  == [i \in 1..Len(c.imageUrls) |->
                             FsUpload(UploadArgOfString(c.imageUrls[i]))]
            IN
            IF c.imageUrls # <<>>
            THEN /\ uploadCalls' = Len(c.imageUrls)
                 /\ IF \E i \in 1..Len(ups) : ~ups[i].ok
                    THEN /\ ChatSettle(Rejected(ups[FirstRejected(ups)].error))
                         /\ chatNet' = chatNet
                    ELSE /\ chatPc' = "Uploading"
                         /\ chatNet' = [i \in 1..Len(ups) |-> ups[i].value]
                         /\ chatOutcome' = chatOutcome
            ELSE /\ uploadCalls' = uploadCalls
                 /\ IF ValidationError(msgs) # Nil
                    THEN ChatSettle(Rejected(ValidationError(msgs))) /\ chatNet' = chatNet
                    ELSE /\ chatPc' = "Awaiting"
                         /\ chatNet' = Append(chatNet, ChatPayload(msgs, c))
                         /\ chatOutcome' = chatOutcome
    /\ chatReply' = chatReply
    /\ UNCHANGED <<appVars, authVars, errVars, adapterVars>>

\* The buffered dispatch, after the await: a success:false envelope throws a
\* PuterError built from a string, inside the try block.
ChatBufferedResult(settled) ==
    IF ~settled.ok THEN Rejected(ChatCatch(settled.error))
    ELSE LET response == settled.value IN
         IF ~response.success
         THEN Rejected(ChatCatch(PuterErrorOfString(
                  Or(IF response.error = Nil THEN None ELSE response.error.message,
                     "Failed to get chat completion"))))
         ELSE Resolved(response.result)

\* The streaming dispatch, after the await: the stream is handed to the
\* caller as it is.
ChatStreamResult(settled) ==
    IF ~settled.ok THEN Rejected(ChatCatch(settled.error)) ELSE settled

\* The reply to the chat request arrives.
ChatReply(r) ==
    /\ chatPc = "Awaiting"
    /\ LET req == chatNet[Len(chatNet)] IN
       IF req.responseType = "stream"
       THEN r \in StreamReplies /\ ChatSettle(ChatStreamResult(Interceptor(r)))
       ELSE r \in ChatReplies /\ ChatSettle(ChatBufferedResult(Interceptor(r)))
    /\ chatReply' = r
    /\ UNCHANGED <<chatArgs, chatNet, uploadCalls>>
    /\ UNCHANGED <<appVars, authVars, errVars, adapterVars>>

----------------------------------------------------------------------------
\* kv: the key-value adapter and the store behind it

INTERFACE_KVSTORE == "INTERFACE_KVSTORE"

\* if (key.length > 1024)
MaxKeyLength == 1024

\* Bounds: the greatest number stored and the number of invocations the
\* backend answers.
MaxKvValue == 1
MaxKvOps == 3

\* A key argument: a string of some length (one key per length), or a value
\* that is not a string.
StringKey(len) == [t |-> "string", len |-> len]
NonStringKey   == [t |-> "other", len |-> 0]

KvKeys == {StringKey(n) : n \in {0, 1, MaxKeyLength, MaxKeyLength + 1}} \cup {NonStringKey}

\* The keys the store may hold: the keys set accepts.
StoredKeys == {k \in KvKeys : k.t = "string" /\ k.len > 0 /\ k.len <= MaxKeyLength}

\* A stored value, or that the key holds none (get then answers null).
Stored(v) == [present |-> TRUE, v |-> v]
Missing   == [present |-> FALSE, v |-> 0]

KvMethods == {"set", "get", "del", "incr", "decr", "flush", "list"}

\* The invocations: set(key, value), get(key), del(key), incr(key, amount),
\* decr(key, amount), flush() and list().  The methods other than set are
\* called with the keys the store may hold and with the invalid ones.
KvCalls ==
    {[method |-> m, key |-> k, arg |-> a] :
         m \in {"set"}, k \in KvKeys, a \in 0..MaxKvValue}
      \cup {[method |-> m, key |-> k, arg |-> 0] :
                m \in {"get", "del"}, k \in StoredKeys \cup {StringKey(0), NonStringKey}}
      \cup {[method |-> m, key |-> k, arg |-> 1] :
                m \in {"incr", "decr"}, k \in StoredKeys \cup {StringKey(0), NonStringKey}}
      \cup {[method |-> m, key |-> NonStringKey, arg |-> 0] : m \in {"flush", "list"}}

KvKeyErrorInclusive(c) ==
    IF c.method \in {"flush", "list"} THEN Nil
    ELSE IF c.key.t # "string" \/ c.key.len = 0 THEN NewError("Invalid key")
    ELSE IF c.method = "set" /\ c.key.len >= MaxKeyLength THEN NewError("Key too large")
    ELSE Nil

\* The checks a method makes on its key before its try block: the error
\* they raise, or Nil.
KvKeyError(c) ==
    IF c.method \in {"flush", "list"} THEN Nil
    ELSE IF c.key.t # "string" \/ c.key.len = 0 THEN NewError("Invalid key")
    ELSE IF c.method = "set" /\ c.key.len > MaxKeyLength THEN NewError("Key too large")
    ELSE Nil

\* The /drivers/call request of a method.
KvArgs(c) ==
    IF c.method = "set" THEN [key |-> c.key, value |-> c.arg]
    ELSE IF c.method \in {"get", "del"} THEN [key |-> c.key]
    ELSE IF c.method \in {"incr", "decr"} THEN [key |-> c.key, amount |-> c.arg]
    ELSE IF c.method = "list" THEN [pattern |-> "*"]
    ELSE Nil

KvRequest(c) == Request("/drivers/call", INTERFACE_KVSTORE, c.method, KvArgs(c))

\* The message a method falls back to when the failure carries none.
KvFallback(method) ==
    CASE method = "set"   -> "Failed to set value"
      [] method = "get"   -> "Failed to get value"
      [] method = "del"   -> "Failed to delete key"
      [] method = "incr"  -> "Failed to increment value"
      [] method = "decr"  -> "Failed to decrement value"
      [] method = "flush" -> "Failed to flush storage"
      [] method = "list"  -> "Failed to list keys"

KvApplyReadOnce(store, c) ==
    IF c.method \in {"get", "del"} THEN [store EXCEPT ![c.key] = Missing]
    ELSE IF c.method = "set" THEN [store EXCEPT ![c.key] = Stored(c.arg)]
    ELSE store

\* The store after the backend carried out a request.
KvApply(store, c) ==
    IF c.method = "set" THEN [store EXCEPT ![c.key] = Stored(c.arg)]
    ELSE IF c.method = "del" THEN [store EXCEPT ![c.key] = Missing]
    ELSE IF c.method = "incr" THEN [store EXCEPT ![c.key] = Stored(store[c.key].v + c.arg)]
    ELSE IF c.method = "decr" THEN [store EXCEPT ![c.key] = Stored(store[c.key].v - c.arg)]
    ELSE IF c.method = "flush" THEN [k \in StoredKeys |-> Missing]
    ELSE store

\* Whether the request keeps the stored numbers within the bounds.
KvInRange(store, c) ==
    /\ c.method = "incr" => store[c.key].v + c.arg <= MaxKvValue
    /\ c.method = "decr" => store[c.key].v - c.arg >= 0

\* response.result of a request the backend carried out.
KvResultOf(store, c) ==
    IF c.method = "get" THEN store[c.key]
    ELSE IF c.method \in {"incr", "decr"} THEN KvApply(store, c)[c.key]
    ELSE Missing

\* The replies to a request: the envelope of the request carried out, a
\* success:false envelope, or a failed request.
KvFailures ==
    {OkReply(Envelope(FALSE, Missing, e)) : e \in ErrBodies \cup {Nil}} \cup FailureReplies

\* A method after the await: set, del and flush return true, the others
\* response.result.
KvSettle(c, settled, fallback) ==
    IF ~settled.ok THEN Rejected(CatchMessage(settled.error, fallback))
    ELSE LET response == settled.value IN
         IF ~response.success
         THEN Rejected(CatchMessage(
                  NewError(Or(IF response.error = Nil THEN None
                                 ELSE response.error.message, fallback)),
                  fallback))
         ELSE IF c.method \in {"set", "del", "flush"} THEN Resolved(Stored(1))
              ELSE Resolved(response.result)

\* The entry of an invocation the backend carried out in the log: the
\* method, the key, whether it resolved and the value it resolved with.
Logged(c, res) ==
    [method |-> c.method, key |-> c.key, ok |-> res.ok,
     value |-> IF res.ok THEN res.value ELSE Missing]

\* A kv method is called: its key is checked, then its request is issued.
KvCall(c) ==
    /\ kvPc = "Idle"
    /\ Len(kvLog) < MaxKvOps
    /\ kvCall' = c
    /\ IF KvKeyError(c) # Nil
       THEN /\ kvOutcome' = Rejected(KvKeyError(c))
            /\ kvNet' = <<>>
            /\ kvPc' = kvPc
       ELSE /\ kvOutcome' = Nil
            /\ kvNet' = <<KvRequest(c)>>
            /\ kvPc' = "Awaiting"
    /\ UNCHANGED <<kvStore, kvLog>>
    /\ UNCHANGED <<appVars, authVars, errVars, chatVars, siteVars, renameVars>>

\* The backend carries the request out and answers.
KvAnswer ==
    /\ kvPc = "Awaiting"
    /\ KvInRange(kvStore, kvCall)
    /\ kvPc' = "Idle"
    /\ kvStore' = KvApply(kvStore, kvCall)
    /\ kvOutcome' = KvSettle(kvCall,
                        Interceptor(OkReply(Envelope(TRUE, KvResultOf(kvStore, kvCall), Nil))),
                        KvFallback(kvCall.method))
    /\ kvLog' = Append(kvLog, Logged(kvCall, kvOutcome'))
    /\ UNCHANGED <<kvCall, kvNet>>
    /\ UNCHANGED <<appVars, authVars, errVars, chatVars, siteVars, renameVars>>

\* The backend refuses the request, or the request fails: nothing was
\* carried out and the method rejects.
KvFail(r) ==
    /\ kvPc = "Awaiting"
    /\ kvPc' = "Idle"
    /\ kvOutcome' = KvSettle(kvCall, Interceptor(r), KvFallback(kvCall.method))
    /\ UNCHANGED <<kvStore, kvCall, kvNet, kvLog>>
    /\ UNCHANGED <<appVars, authVars, errVars, chatVars, siteVars, renameVars>>

----------------------------------------------------------------------------
\* sites.create: the listing, the availability test, the create request

\* Bound: the number of site names.
MaxSites == 2

SiteNames == {"site" \o ToString(i) : i \in 1..MaxSites}

\* The options of sites.create: {name, directory}, either may be missing.
SiteOptions == [name : SiteNames \cup {None}, directory : {None, "/Projects/site"}]

\* The invocations of sites.create that may be in flight together.
Invocations == {1, 2}

\* hosting.list: the select call of the subdomain resource.
ListRequest == Request("/drivers/call", INTERFACE_SUBDOMAINS, "select", Nil)

\* A listing: the subdomain members of its records.
Listing(names) == [subdomains |-> names]

\* The replies to the select call: the listing of what the backend holds,
\* an envelope without result, or a failure.
ListReplies(held) ==
    {OkReply(Envelope(TRUE, Listing(held), Nil)), OkReply(Envelope(TRUE, Nil, Nil))}
      \cup FailureReplies

\* The replies to a create call the backend did not carry out.
SiteCreateFailures ==
    {OkReply(Envelope(FALSE, Nil, e)) : e \in ErrBodies \cup {Nil}} \cup FailureReplies

\* hosting.list, after the await: response.result || [], and a fixed
\* message for a failure without an error body.
HostingListResult(settled) ==
    IF ~settled.ok THEN Rejected(CatchFixed(settled.error, "Failed to list hosting"))
    ELSE IF settled.value.result = Nil THEN Resolved(Listing({}))
         ELSE Resolved(settled.value.result)

NameTakenNever(listing, name) == FALSE

\* existing.some(s => s.subdomain === name)
NameTaken(listing, name) == name \in listing.subdomains

\* sites.create's catch block.
SitesCatch(error) == CatchMessage(error, "Failed to create site")

\* An invocation ends in failure.
SiteFail(p, error) ==
    /\ sitePc' = [sitePc EXCEPT ![p] = "Failed"]
    /\ siteOutcome' = [siteOutcome EXCEPT ![p] = Rejected(error)]
    /\ siteNet' = siteNet

\* sites.create({name, directory}), up to its first await.
SitesCreate(p, opts) ==
    /\ sitePc[p] = "Idle"
    /\ siteArgs' = [siteArgs EXCEPT ![p] = opts]
    /\ IF opts.name = None \/ opts.directory = None
       THEN SiteFail(p, NewError("Site name and directory are required"))
       ELSE /\ sitePc' = [sitePc EXCEPT ![p] = "Listing"]
            /\ siteNet' = [siteNet EXCEPT ![p] = <<ListRequest>>]
            /\ siteOutcome' = siteOutcome
    /\ UNCHANGED <<subdomains, existing>>
    /\ UNCHANGED <<appVars, authVars, errVars, chatVars, kvVars, renameVars>>

\* The reply to the select call arrives: the name is looked up in the
\* listing and, when it is free, hosting.create issues the create request
\* (its own test of subdomain and rootDir passes: both are non-empty here).
SiteListReply(p, r) ==
    /\ sitePc[p] = "Listing"
    /\ LET res == HostingListResult(Interceptor(r)) IN
       IF ~res.ok
       THEN SiteFail(p, SitesCatch(res.error)) /\ existing' = existing
       ELSE /\ existing' = [existing EXCEPT ![p] = res.value]
            /\ IF NameTaken(res.value, siteArgs[p].name)
               THEN SiteFail(p, SitesCatch(NewError("Subdomain already exists")))
               ELSE /\ sitePc' = [sitePc EXCEPT ![p] = "Creating"]
                    /\ siteNet' = [siteNet EXCEPT ![p] =
                           Append(@, SubdomainRequest(siteArgs[p].name,
                                                      siteArgs[p].directory))]
                    /\ siteOutcome' = siteOutcome
    /\ UNCHANGED <<subdomains, siteArgs>>
    /\ UNCHANGED <<appVars, authVars, errVars, chatVars, kvVars, renameVars>>

\* What sites.create settles with when the reply to its create request
\* arrives.
SiteSettle(p, r) ==
    LET res == HostingCreateResult(Interceptor(r)) IN
    /\ sitePc' = [sitePc EXCEPT ![p] = IF res.ok THEN "Done" ELSE "Failed"]
    /\ siteOutcome' = [siteOutcome EXCEPT ![p] =
           IF res.ok THEN res ELSE Rejected(SitesCatch(res.error))]

\* The backend registers the name, which it does not hold yet, and answers
\* with the new record.
SiteCreateAnswer(p) ==
    /\ sitePc[p] = "Creating"
    /\ siteArgs[p].name \notin subdomains
    /\ subdomains' = subdomains \cup {siteArgs[p].name}
    /\ SiteSettle(p, OkReply(Envelope(TRUE,
                      [uid |-> "sd-1", subdomain |-> siteArgs[p].name], Nil)))
    /\ UNCHANGED <<siteArgs, siteNet, existing>>
    /\ UNCHANGED <<appVars, authVars, errVars, chatVars, kvVars, renameVars>>

\* The backend refuses the create request, or the request fails.
SiteCreateFail(p, r) ==
    /\ sitePc[p] = "Creating"
    /\ SiteSettle(p, r)
    /\ UNCHANGED <<subdomains, siteArgs, siteNet, existing>>
    /\ UNCHANGED <<appVars, authVars, errVars, chatVars, kvVars, renameVars>>

----------------------------------------------------------------------------
\* fs.rename: /stat, then /rename

\* Bound: the length of a path.
MaxPathLen == 3

PathChars == {"/", "a", "b"}

\* A path: the sequence of its characters.
Paths == UNION {[1..n -> PathChars] : n \in 0..MaxPathLen}

\* The paths of the files renamed.
OldPaths == {<<"/", "a">>, <<"/", "b">>}

\* The index of the last '/' of a path, 0 when it has none.
LastSlash(path) ==
    LET slashes == {i \in 1..Len(path) : path[i] = "/"} IN
    IF slashes = {} THEN 0 ELSE CHOOSE i \in slashes : \A j \in slashes : j <= i

WholePath(path) == path

\* newPath.split('/').pop()
LastSegment(path) == SubSeq(path, LastSlash(path) + 1, Len(path))

\* getInfo: post('/stat', {path})
StatRequest(path) == [url |-> "/stat", path |-> path]

\* post('/rename', {uid, new_name})
RenameRequest(uid, newName) == [url |-> "/rename", uid |-> uid, new_name |-> newName]

\* The replies to /stat and /rename: an entry, with or without uid, or a
\* failure.
FsReplies ==
    {OkReply([uid |-> u]) : u \in {"uid-1", "uid-2", None}} \cup FailureReplies

\* fs.rename(oldPath, newPath), up to its first await.
Rename(oldPath, newPath) ==
    /\ renamePc = "Idle"
    /\ renameArgs' = [oldPath |-> oldPath, newPath |-> newPath]
    /\ renameNet' = <<StatRequest(oldPath)>>
    /\ renamePc' = "Stating"
    /\ UNCHANGED <<statResponse, renameOutcome>>
    /\ UNCHANGED <<appVars, authVars, errVars, chatVars, kvVars, siteVars>>

\* The reply to /stat arrives: a failure rejects the invocation (rename has
\* no catch block), an answer is followed by the /rename request.
StatReply(r) ==
    /\ renamePc = "Stating"
    /\ LET settled == Interceptor(r) IN
       IF ~settled.ok
       THEN /\ renamePc' = "Failed"
            /\ renameOutcome' = settled
            /\ UNCHANGED <<renameNet, statResponse>>
       ELSE /\ statResponse' = settled.value
            /\ renameNet' = Append(renameNet,
                   RenameRequest(settled.value.uid, LastSegment(renameArgs.newPath)))
            /\ renamePc' = "Renaming"
            /\ renameOutcome' = renameOutcome
    /\ UNCHANGED renameArgs
    /\ UNCHANGED <<appVars, authVars, errVars, chatVars, kvVars, siteVars>>

\* The reply to /rename arrives: rename returns it, or rejects with its
\* failure.
RenameReply(r) ==
    /\ renamePc = "Renaming"
    /\ renameOutcome' = Interceptor(r)
    /\ renamePc' = IF renameOutcome'.ok THEN "Done" ELSE "Failed"
    /\ UNCHANGED <<renameArgs, renameNet, statResponse>>
    /\ UNCHANGED <<appVars, authVars, errVars, chatVars, kvVars, siteVars>>

----------------------------------------------------------------------------
\* Specifications

\* The state after construction of a client without a token.
InitApps ==
    /\ pc = "Idle"
    /\ options = Nil
    /\ net = <<>>
    /\ replies = <<>>
    /\ app = Nil
    /\ dirResponse = Nil
    /\ subdomainResponse = Nil
    /\ outcome = Nil

InitAuth ==
    /\ token = None
    /\ defaultAuth = Nil
    /\ signInPc = "Idle"
    /\ signInOtp = None
    /\ signInResult = Nil
    /\ sent = Nil
    /\ lastOp = [prev |-> None, last |-> "construct"]
    /\ signInNet = <<>>
    /\ loginAnswer = Nil
    /\ signedOut = FALSE
    /\ twoFactorPc = "Idle"
    /\ twoFactorReply = Nil
    /\ twoFactorResult = Nil

InitErrors ==
    /\ call = Nil
    /\ thrown = Nil

InitChat ==
    /\ chatPc = "Idle"
    /\ chatArgs = Nil
    /\ chatNet = <<>>
    /\ uploadCalls = 0
    /\ chatReply = Nil
    /\ chatOutcome = Nil

\* An empty store and no kv invocation yet.
InitKv ==
    /\ kvStore = [k \in StoredKeys |-> Missing]
    /\ kvPc = "Idle"
    /\ kvCall = Nil
    /\ kvNet = <<>>
    /\ kvOutcome = Nil
    /\ kvLog = <<>>

\* No sites.create invocation yet and no subdomain registered.
InitSites ==
    /\ subdomains = {}
    /\ sitePc = [p \in Invocations |-> "Idle"]
    /\ siteArgs = [p \in Invocations |-> Nil]
    /\ siteNet = [p \in Invocations |-> <<>>]
    /\ existing = [p \in Invocations |-> Nil]
    /\ siteOutcome = [p \in Invocations |-> Nil]

InitFs ==
    /\ renamePc = "Idle"
    /\ renameArgs = Nil
    /\ renameNet = <<>>
    /\ statResponse = Nil
    /\ renameOutcome = Nil

InitAdapters == InitKv /\ InitSites /\ InitFs

Init == InitApps /\ InitAuth /\ InitErrors /\ InitChat /\ InitAdapters

\* new PuterClient(clientConfig): this.token is clientConfig.token or the
\* configured API key, when either is set; no default Authorization header.
InitSession ==
    /\ InitApps /\ InitErrors /\ InitChat /\ InitAdapters
    /\ token \in Tokens \cup {None}
    /\ defaultAuth = Nil
    /\ signInPc = "Idle"
    /\ signInOtp = None
    /\ signInResult = Nil
    /\ sent = Nil
    /\ lastOp = [prev |-> None, last |-> "construct"]
    /\ signInNet = <<>>
    /\ loginAnswer = Nil
    /\ signedOut = FALSE
    /\ twoFactorPc = "Idle"
    /\ twoFactorReply = Nil
    /\ twoFactorResult = Nil

NextApps ==
    \/ \E opts \in CreateOptions : Create(opts)
    \/ \E r \in RecordReplies, uuid \in Uuids : RecordReply(r, uuid)
    \/ \E r \in DirReplies : DirReply(r)
    \/ \E r \in SubdomainReplies : SubdomainReply(r)
    \/ \E r \in LinkReplies : LinkReply(r)

NextAuth ==
    \/ \E t \in Tokens \cup {None} : SetToken(t)
    \/ SignOut
    \/ SendRequest
    \/ \E cred \in Credentials : SignIn(cred)
    \/ signInPc = "Login" /\ \E r \in LoginReplies : LoginReply(r)
    \/ signInPc = "Otp" /\ \E r \in LoginReplies : OtpReply(r)

\* The session operations together with isTwoFactorRequired and the
\* requests of the adapters.
NextTwoFactor ==
    \/ \E t \in Tokens \cup {None} : SetToken(t)
    \/ SignOut
    \/ SendRequest
    \/ IsTwoFactorRequired
    \/ twoFactorPc = "Awaiting" /\ \E r \in LoginReplies : TwoFactorReply(r)

NextErrors ==
    \E m \in Methods, r \in FailureReplies : AdapterFailure(m, r)

NextChat ==
    \/ chatPc = "Idle" /\ \E prompt \in Prompts, extra \in ExtraSeqs : Chat(prompt, extra)
    \/ chatPc = "Awaiting" /\ \E r \in ChatReplies \cup StreamReplies : ChatReply(r)

NextKv ==
    \/ kvPc = "Idle" /\ \E c \in KvCalls : KvCall(c)
    \/ KvAnswer
    \/ \E r \in KvFailures : KvFail(r)

NextSites ==
    \/ \E p \in Invocations, opts \in SiteOptions : SitesCreate(p, opts)
    \/ \E p \in Invocations : \E r \in ListReplies(subdomains) : SiteListReply(p, r)
    \/ \E p \in Invocations : SiteCreateAnswer(p)
    \/ \E p \in Invocations, r \in SiteCreateFailures : SiteCreateFail(p, r)

NextFs ==
    \/ \E oldPath \in OldPaths, newPath \in Paths : Rename(oldPath, newPath)
    \/ \E r \in FsReplies : StatReply(r)
    \/ \E r \in FsReplies : RenameReply(r)

Next == NextSites \/ NextFs \/ NextKv \/ NextApps \/ NextAuth \/ NextTwoFactor \/ NextErrors \/ NextChat

SpecApps   == Init /\ [][NextApps]_vars
SpecAuth   == InitSession /\ [][NextAuth]_vars
SpecTwoFactor == InitSession /\ [][NextTwoFactor]_vars

\* The session with every request of signIn eventually answered or failed.
SpecAuthLive ==
    /\ SpecAuth
    /\ WF_vars(\E r \in LoginReplies : LoginReply(r))
    /\ WF_vars(\E r \in LoginReplies : OtpReply(r))
SpecErrors == Init /\ [][NextErrors]_vars
SpecChat   == Init /\ [][NextChat]_vars
SpecKv     == Init /\ [][NextKv]_vars
SpecSites  == Init /\ [][NextSites]_vars
SpecFs     == Init /\ [][NextFs]_vars
Spec       == InitSession /\ [][Next]_vars

----------------------------------------------------------------------------
\* Properties of apps.create (checked under SpecApps)

\* Requests of the invocation that no reply has answered yet.
InFlight == Len(net) - Len(replies)

\* Whether the backend's reply r to step i reports success.
ReplySuccess(i, r) ==
    /\ r.kind = "ok"
    /\ IF i = 1 THEN r.data.success /\ r.data.result # Nil /\ r.data.error = Nil
       ELSE IF i = 2 THEN r.data.uid # Nil
       ELSE r.data.success

\* C1: on full success apps.create has issued exactly four requests, in the
\* order record create, /mkdir, subdomain create, record update; every
\* request is issued only after the reply to the previous one has arrived
\* and reported success, and at most one request is in flight at any time.
C1_FourRequestsInSequence ==
    /\ InFlight \in {0, 1}
    /\ \A i \in 1..Len(net) : StepOf(net[i]) = i
    /\ \A i \in 2..Len(net) :
           i - 1 <= Len(replies) /\ ReplySuccess(i - 1, replies[i - 1])
    /\ pc = "Done" =>
           /\ Len(net) = 4
           /\ Len(replies) = 4
           /\ ReplySuccess(4, replies[4])

C1_Witness == pc = "Done" /\ Len(net) = 4

\* Whether reply r reports a failure of the backend: a success:false
\* envelope or an HTTP error with a structured body.
ReportsFailure(r) ==
    \/ r.kind = "ok" /\ ~r.data.success
    \/ r.kind = "http" /\ r.error # Nil

\* The message a reported failure carries, None when it carries none.
ReportedMessage(r) ==
    IF r.kind = "ok"
    THEN IF r.data.error = Nil THEN None ELSE r.data.error.message
    ELSE r.error.message

\* C2: when the reply to the subdomain-create request (step 3) reports
\* failure, apps.create has failed, with the message the backend reported
\* when it reported one, and no record update (step 4) is requested.
C2_SubdomainFailureStopsCreate ==
    (Len(replies) >= 3 /\ ReportsFailure(replies[3])) =>
        /\ pc = "Failed"
        /\ ~outcome.ok
        /\ ReportedMessage(replies[3]) # None =>
               outcome.error.message = ReportedMessage(replies[3])
        /\ \A i \in 1..Len(net) : StepOf(net[i]) # 4

C2_Witness ==
    /\ pc = "Failed"
    /\ Len(replies) = 3
    /\ replies[3].kind = "ok"
    /\ ~replies[3].data.success
    /\ ReportedMessage(replies[3]) \in Messages

\* The state part of C3: every request is one of the four steps, no step is
\* requested twice, a failed invocation has nothing in flight, and a reply
\* that does not report success ends the invocation with no request after
\* the one it answers.
C3_NoRetryInvariant ==
    /\ \A i \in 1..Len(net) : StepOf(net[i]) \in 1..4
    /\ \A i, j \in 1..Len(net) : i # j => StepOf(net[i]) # StepOf(net[j])
    /\ pc = "Failed" => InFlight = 0 /\ ~outcome.ok
    /\ \A i \in 1..Len(replies) :
           ~ReplySuccess(i, replies[i]) => pc = "Failed" /\ Len(net) = i

\* C3: apps.create neither retries nor compensates: each of the four steps
\* is requested at most once and nothing else is requested, and once a step
\* has failed the invocation is failed and issues no further request.
C3_NoRetryNoCompensation ==
    /\ []C3_NoRetryInvariant
    /\ [][pc = "Failed" => (pc' = "Failed" /\ net' = net)]_vars

C3_Witness ==
    /\ pc = "Failed"
    /\ Len(net) = 3
    /\ Len(replies) = 3
    /\ ~ReplySuccess(3, replies[3])

----------------------------------------------------------------------------
\* Properties of the session (checked under SpecAuth)

\* C4: every outgoing request carries 'Authorization: Bearer <token>' for
\* the token current when it was sent, and no Authorization header when no
\* token was set.
C4_BearerFollowsToken ==
    sent # Nil =>
        sent.auth = (IF sent.token # None THEN Bearer(sent.token) ELSE Nil)

\* C5: once auth.signOut() has completed, and until another session
\* operation completes, auth.isSignedIn() is false and a request sent
\* carries no Authorization header, whatever established the session.
C5_SignOutClearsSession ==
    /\ lastOp.last = "signOut" => ~IsSignedIn /\ RequestAuthorization = Nil
    /\ (sent # Nil /\ sent.after.last = "signOut") => sent.auth = Nil

C5_Witness ==
    /\ sent # Nil
    /\ sent.after = [prev |-> "setToken", last |-> "signOut"]
    /\ lastOp.last = "signOut"

----------------------------------------------------------------------------
\* Properties of the adapter error paths (checked under SpecErrors)

\* The backend answered with an HTTP error whose body is
\* {error: {code, message}}.
StructuredError ==
    /\ call # Nil
    /\ call.reply.kind = "http"
    /\ call.reply.error # Nil
    /\ call.reply.error.code # None
    /\ call.reply.error.message # None

\* C6: for every adapter method, a backend error {error: {code, message}}
\* makes the method fail with an error carrying that same message.
C6_BackendMessageKept ==
    StructuredError => thrown.message = call.reply.error.message

\* C7: for every adapter method, a backend error {error: {code, message}}
\* makes the method fail with a PuterError whose code is the backend's.
C7_TypedErrorKept ==
    StructuredError =>
        thrown.cls = "PuterError" /\ thrown.code = call.reply.error.code

\* The request failed without a structured error body.
UnstructuredFailure ==
    /\ call # Nil
    /\ call.reply.kind = "network" \/ call.reply.error = Nil

\* C8: for every adapter method, a failure without a structured error body
\* makes the method fail with a PuterError or a generic Error, never with
\* the transport library's own error object.
C8_NoRawTransportError ==
    UnstructuredFailure => thrown.cls \in {"PuterError", "Error"}

----------------------------------------------------------------------------
\* Properties of ai.chat (checked under SpecChat)

\* The chat requests among the requests of the invocation.
ChatRequests == {i \in 1..Len(chatNet) : chatNet[i].url = "/drivers/call"}

\* The caller passed true as a test-mode argument.
PassedTestModeTrue ==
    \E i \in 1..Len(chatArgs.extra) : chatArgs.extra[i] = BooleanArg(TRUE)

\* C9: a chat request whose merged options have stream true is sent in
\* stream mode with args.stream true and test_mode false, whatever boolean
\* was passed; test_mode is true only in a non-streaming request of a call
\* whose test-mode argument was true.
C9_StreamForcesTestModeOff ==
    \A i \in ChatRequests :
        LET req  == chatNet[i]
            opts == Classified(chatArgs.extra).options
        IN /\ opts.stream = "true" =>
                  /\ req.responseType = "stream"
                  /\ req.args.stream = TRUE
                  /\ req.test_mode = FALSE
           /\ req.test_mode = TRUE =>
                  /\ opts.stream # "true"
                  /\ req.responseType # "stream"
                  /\ PassedTestModeTrue
                  /\ Classified(chatArgs.extra).testMode = TRUE

C9_Witness ==
    /\ ChatRequests # {}
    /\ chatNet[1].responseType = "stream"
    /\ chatNet[1].test_mode = FALSE
    /\ PassedTestModeTrue

\* The input fails validation: the first argument is neither a string nor
\* an array, a message is malformed, or the sequence is empty and no image
\* reference is passed with it.
FailsValidation ==
    /\ chatArgs # Nil
    /\ \/ chatArgs.prompt.t = "other"
       \/ \E i \in 1..Len(chatArgs.prompt.msgs) : ~ValidMessage(chatArgs.prompt.msgs[i])
       \/ /\ chatArgs.prompt.t = "array"
          /\ chatArgs.prompt.msgs = <<>>
          /\ Classified(chatArgs.extra).imageUrls = <<>>

ValidationTexts ==
    {"The first argument must be a string or an array of messages.",
     "At least one message is required.",
     "Invalid message format"}

\* C10: a call whose input fails validation settles with the validation
\* error, and nothing precedes it: no request and no upload, also when
\* image references are passed.
C10_ValidationBeforeAnyRequest ==
    (chatPc = "Settled" /\ FailsValidation) =>
        /\ ~chatOutcome.ok
        /\ chatOutcome.error.cls = "Error"
        /\ chatOutcome.error.message \in ValidationTexts
        /\ chatNet = <<>>
        /\ uploadCalls = 0

\* The backend answered the buffered chat request with a success:false
\* envelope whose error object has a message and a code.
ChatBackendFailure ==
    /\ chatPc = "Settled"
    /\ chatReply # Nil
    /\ chatReply.kind = "ok"
    /\ chatNet[Len(chatNet)].responseType = "json"
    /\ ~chatReply.data.success
    /\ chatReply.data.error # Nil
    /\ chatReply.data.error.message # None
    /\ chatReply.data.error.code # None

\* C11: in non-streaming ai.chat a backend response with success false
\* makes the call fail with a PuterError carrying the backend's message and
\* code.
C11_ChatFailureIsTyped ==
    ChatBackendFailure =>
        /\ ~chatOutcome.ok
        /\ chatOutcome.error.cls = "PuterError"
        /\ chatOutcome.error.message = chatReply.data.error.message
        /\ chatOutcome.error.code = chatReply.data.error.code

\* The image references of the call, in argument order.
ImageRefs == Classified(chatArgs.extra).imageUrls

\* The call passed the check of its first argument and has image
\* references.
PassedImages ==
    /\ chatArgs # Nil
    /\ chatArgs.prompt.t # "other"
    /\ ImageRefs # <<>>

\* The upload requests among the requests of the invocation.
UploadRequests == {i \in 1..Len(chatNet) : chatNet[i].url = "/batch"}

\* C12: when image references are passed to ai.chat, each reference is
\* uploaded exactly once through fs.upload, which issues its /batch request
\* and yields a file identifier, so that the call goes on to append the image
\* parts instead of failing inside the upload.
C12_ImagesUploadedAndAppended ==
    (chatPc # "Idle" /\ PassedImages) =>
        /\ uploadCalls = Len(ImageRefs)
        /\ Cardinality(UploadRequests) = Len(ImageRefs)
        /\ chatOutcome # Nil =>
               (chatOutcome.ok \/ chatOutcome.error.cls # "TypeError")

\* The greatest element of a non-empty set of indices.
MaxOf(S) == CHOOSE x \in S : \A y \in S : y <= x

\* The positions of the extra arguments of a given shape.
ArgsOfShape(shapes) ==
    {i \in 1..Len(chatArgs.extra) : chatArgs.extra[i].t \in shapes}

\* The boolean passed last, false when none was passed.
LastBoolean ==
    IF ArgsOfShape({"boolean"}) = {} THEN FALSE
    ELSE chatArgs.extra[MaxOf(ArgsOfShape({"boolean"}))].b

\* The strings of the string and array-of-strings arguments, in argument
\* order.
RECURSIVE ImagesFrom(_)
ImagesFrom(i) ==
    IF i > Len(chatArgs.extra) THEN <<>>
    ELSE (IF chatArgs.extra[i].t \in {"string", "strings"}
          THEN chatArgs.extra[i].imgs ELSE <<>>) \o ImagesFrom(i + 1)

\* The object arguments that define a key of the options bag.
DefinesStream == {i \in ArgsOfShape({"object"}) : chatArgs.extra[i].opts.stream # "absent"}
DefinesTemperature == {i \in ArgsOfShape({"object"}) : chatArgs.extra[i].opts.temperature # None}
DefinesMessages == {i \in ArgsOfShape({"object"}) : chatArgs.extra[i].opts.messages # Nil}

\* The options bag in which every key has the value of the last object
\* argument that defines it.
LastWins ==
    [stream |-> IF DefinesStream = {} THEN "absent"
                ELSE chatArgs.extra[MaxOf(DefinesStream)].opts.stream,
     temperature |-> IF DefinesTemperature = {} THEN None
                     ELSE chatArgs.extra[MaxOf(DefinesTemperature)].opts.temperature,
     messages |-> IF DefinesMessages = {} THEN Nil
                  ELSE chatArgs.extra[MaxOf(DefinesMessages)].opts.messages]

\* C13: ai.chat classifies its extra arguments by shape in the order
\* received: the last boolean is the test-mode flag, the strings and arrays
\* of strings make up the image list in argument order, and the plain
\* objects are merged into the options bag, a later object overriding the
\* keys of an earlier one; the uploads and the chat request follow from it.
C13_ArgumentsClassifiedByShape ==
    (chatArgs # Nil /\ chatArgs.prompt.t # "other") =>
        /\ Classified(chatArgs.extra).testMode = LastBoolean
        /\ Classified(chatArgs.extra).imageUrls = ImagesFrom(1)
        /\ Classified(chatArgs.extra).options = LastWins
        /\ uploadCalls = Len(ImagesFrom(1))
        /\ \A i \in ChatRequests :
               /\ chatNet[i].test_mode = (LastWins.stream # "true" /\ LastBoolean)
               /\ chatNet[i].args.stream = (LastWins.stream = "true")
               /\ chatNet[i].args.temperature = LastWins.temperature

C13_Witness ==
    /\ ChatRequests # {}
    /\ Len(chatArgs.extra) = 3
    /\ chatArgs.extra[1] = ObjectArg([NoOptions EXCEPT !.stream = "true"])
    /\ chatArgs.extra[2] = BooleanArg(TRUE)
    /\ chatArgs.extra[3] =
           ObjectArg([NoOptions EXCEPT !.stream = "false", !.temperature = "0.5"])
    /\ chatNet[1].test_mode = TRUE
    /\ chatNet[1].args.temperature = "0.5"

----------------------------------------------------------------------------
\* Properties of auth.signIn (checked under SpecAuth and SpecAuthLive)

\* A step of auth.signIn: the invocation moves or settles.
SignInStep == signInPc' # signInPc \/ signInResult' # signInResult

\* C14: a step of auth.signIn writes the token and the default Authorization
\* header only when it settles on a final response with proceed true and a
\* token, and then both hold that token; every other step of signIn, every
\* failure included, leaves both unchanged.
C14_TokenWrittenOnlyOnSuccess ==
    [][SignInStep =>
          IF signInPc # "Idle" /\ signInPc' = "Idle" /\ signInResult'.ok
          THEN /\ signInResult'.value.proceed
               /\ signInResult'.value.token # None
               /\ token' = signInResult'.value.token
               /\ defaultAuth' = Bearer(signInResult'.value.token)
          ELSE token' = token /\ defaultAuth' = defaultAuth]_vars

C14_Witness ==
    /\ signInPc = "Idle"
    /\ signInNet = <<"/login", "/login/otp">>
    /\ signInResult # Nil
    /\ signInResult.ok
    /\ token = signInResult.value.token
    /\ defaultAuth = Bearer(token)
    /\ lastOp = [prev |-> "signOut", last |-> "signIn"]

\* What /login answers when it demands an OTP.
OtpDemanded == [proceed |-> TRUE, next_step |-> "otp"]

\* The state part of C15: one invocation requests /login once and
\* /login/otp at most once, after it; /login/otp is requested only when
\* /login answered proceed with next_step 'otp' and an OTP was supplied; an
\* invocation that got that answer and requested no /login/otp has failed
\* with '2FA required - OTP is needed'.
C15_OtpInvariant ==
    /\ signInNet \in {<<>>, <<"/login">>, <<"/login", "/login/otp">>}
    /\ signInPc = "Login" => signInNet = <<"/login">>
    /\ signInPc = "Otp" => signInNet = <<"/login", "/login/otp">> /\ signInOtp # None
    /\ Len(signInNet) = 2 => loginAnswer = OtpDemanded
    /\ (signInPc = "Idle" /\ Len(signInNet) = 1 /\ loginAnswer = OtpDemanded) =>
           signInResult = Rejected(NewError("2FA required - OTP is needed"))

\* C15: auth.signIn requests /login/otp only after /login demanded an OTP
\* and only with an OTP supplied, fails with '2FA required - OTP is needed'
\* without one, issues each of its two requests at most once, and always
\* terminates.
C15_OtpOnlyWhenDemanded ==
    /\ []C15_OtpInvariant
    /\ [][signInPc = "Login" /\ signInOtp = None => signInNet' = signInNet]_vars
    /\ (signInPc # "Idle") ~> (signInPc = "Idle")

C15_Witness ==
    /\ signInPc = "Idle"
    /\ signInNet = <<"/login">>
    /\ loginAnswer = OtpDemanded
    /\ signInResult = Rejected(NewError("2FA required - OTP is needed"))

\* C16: auth.signIn either resolves with the session result, the server
\* response carrying the token, or fails; it never resolves without a
\* result.
C16_SignInResolvesWithResult ==
    (signInResult # Nil /\ signInResult.ok) =>
        signInResult.value # Nil /\ signInResult.value.token # None

----------------------------------------------------------------------------
\* Properties of isTwoFactorRequired (checked under SpecTwoFactor)

----------------------------------------------------------------------------
\* Further properties of apps.create (checked under SpecApps)

\* The reply to step 1 reports a name collision: error code APP_EXISTS in a
\* success:false envelope or in an HTTP error body.
ReportsNameCollision(r) ==
    \/ r.kind = "ok" /\ ~r.data.success /\ r.data.error # Nil
           /\ r.data.error.code = "APP_EXISTS"
    \/ r.kind = "http" /\ r.error # Nil /\ r.error.code = "APP_EXISTS"

\* C18: when step 1 reports a name collision, apps.create fails with the
\* dedicated error 'App already exists', whatever message the backend
\* supplied, and requests none of steps 2 to 4.
C18_NameCollisionIsReclassified ==
    (Len(replies) >= 1 /\ ReportsNameCollision(replies[1])) =>
        /\ pc = "Failed"
        /\ outcome = Rejected(NewError("App already exists"))
        /\ Len(net) = 1

\* C19: the value apps.create resolves with has every field of the app
\* record step 1 returned, directory equal to the /mkdir response of step 2
\* and subdomain equal to the subdomain record step 3 returned.
C19_ResultMergesTheThreeSteps ==
    pc = "Done" =>
        /\ outcome.ok
        /\ \A f \in DOMAIN replies[1].data.result :
               outcome.value[f] = replies[1].data.result[f]
        /\ outcome.value.directory = replies[2].data
        /\ outcome.value.subdomain = replies[3].data.result

C19_Witness ==
    /\ pc = "Done"
    /\ outcome.ok
    /\ outcome.value.uid = "app-123"
    /\ outcome.value.directory.uid = DirUid
    /\ outcome.value.subdomain # Nil

\* C20: apps.create called without a name fails with the validation error
\* 'App name is required' and issues no request.
C20_NameRequiredBeforeAnyRequest ==
    (options # Nil /\ options.name = None) =>
        /\ pc = "Failed"
        /\ outcome = Rejected(NewError("App name is required"))
        /\ net = <<>>
        /\ replies = <<>>

C20_Witness ==
    /\ options # Nil
    /\ options.name = None
    /\ pc = "Failed"
    /\ net = <<>>

\* Step 1 succeeded with a record that lacks owner.username or uid.
IncompleteAppRecord ==
    /\ Len(replies) >= 1
    /\ ReplySuccess(1, replies[1])
    /\ replies[1].data.result.owner = None \/ replies[1].data.result.uid = None

\* The /mkdir request of step 2 was answered without a uid.
DirectoryWithoutUid ==
    /\ Len(replies) >= 2
    /\ replies[2].kind = "ok"
    /\ replies[2].data.uid = Nil

\* C21: a step 1 record without owner.username or uid makes apps.create
\* fail with 'Invalid app record' and /mkdir is not requested; a /mkdir
\* response without uid makes it fail and step 3 is not requested.
C21_StepGuardsStopTheWorkflow ==
    /\ IncompleteAppRecord =>
           /\ pc = "Failed"
           /\ outcome = Rejected(NewError("Invalid app record"))
           /\ Len(net) = 1
    /\ DirectoryWithoutUid =>
           /\ pc = "Failed"
           /\ ~outcome.ok
           /\ Len(net) = 2
           /\ \A i \in 1..Len(net) : StepOf(net[i]) # 3

C21_Witness ==
    /\ IncompleteAppRecord
    /\ replies[1].data.result.uid = None
    /\ replies[1].data.result.owner # None
    /\ pc = "Failed"

----------------------------------------------------------------------------
\* Key-value store: the key length boundary and repeated reads.

\* The latest invocation is set(key, value) with a string key of length len.
SetWithKeyOfLength(len) ==
    /\ kvCall # Nil
    /\ kvCall.method = "set"
    /\ kvCall.key = StringKey(len)

\* C22: kv.set fails with 'Key too large', having issued no request, when
\* the key is longer than 1024 characters; with a key of exactly 1024
\* characters the validation passes and the set request is issued.
C22_KeyLengthBoundary ==
    /\ SetWithKeyOfLength(MaxKeyLength + 1) =>
           /\ kvOutcome = Rejected(NewError("Key too large"))
           /\ kvNet = <<>>
           /\ kvPc = "Idle"
    /\ SetWithKeyOfLength(MaxKeyLength) =>
           /\ kvNet = <<KvRequest(kvCall)>>
           /\ kvNet[1].method = "set"
           /\ kvNet[1].args.key.len = MaxKeyLength
           /\ kvOutcome # Rejected(NewError("Key too large"))

\* A set with a key of 1024 characters was answered with true, and a set
\* with a longer key has just been refused.
C22_Witness ==
    /\ SetWithKeyOfLength(MaxKeyLength + 1)
    /\ kvOutcome = Rejected(NewError("Key too large"))
    /\ \E i \in 1..Len(kvLog) :
           /\ kvLog[i].method = "set"
           /\ kvLog[i].key = StringKey(MaxKeyLength)
           /\ kvLog[i].ok

\* Entry i of the log is a get of key k that resolved.
ResolvedGet(i, k) ==
    /\ kvLog[i].method = "get"
    /\ kvLog[i].key = k
    /\ kvLog[i].ok

\* Between entries i and j of the log there is an invocation of one of the
\* methods on key k (flush names no key: it reaches every key).
Intervening(i, j, k, methods) ==
    \E m \in (i + 1)..(j - 1) :
        /\ kvLog[m].method \in methods
        /\ kvLog[m].method = "flush" \/ kvLog[m].key = k

\* Two resolved gets of one key with none of the methods between them
\* returned the same value.
RepeatedGetsAgree(methods) ==
    \A k \in StoredKeys : \A i, j \in 1..Len(kvLog) :
        (i < j /\ ResolvedGet(i, k) /\ ResolvedGet(j, k) /\ ~Intervening(i, j, k, methods))
            => kvLog[i].value = kvLog[j].value

\* A step of a get invocation (its call, its answer or its failure) leaves
\* the stored values and the session of the client alone.
GetLeavesStateAlone ==
    (kvCall' # Nil /\ kvCall'.method = "get")
        => /\ kvStore' = kvStore
           /\ token' = token
           /\ defaultAuth' = defaultAuth

\* C23 as stated: two kv.get invocations for the same key with no
\* intervening set or del for that key return the same value.
C23_AsStated == RepeatedGetsAgree({"set", "del"})

\* C23: two kv.get invocations for the same key with no intervening set,
\* del, incr or decr for that key and no intervening flush return the same
\* value, and kv.get changes neither the state of the client nor the
\* stored value.
C23_RepeatedGetsAgree ==
    /\ []RepeatedGetsAgree({"set", "del", "incr", "decr", "flush"})
    /\ [][GetLeavesStateAlone]_vars

\* Two gets of a key that holds a value, with nothing between them.
C23_Witness ==
    \E k \in StoredKeys : \E i \in 1..(Len(kvLog) - 1) :
        /\ ResolvedGet(i, k)
        /\ ResolvedGet(i + 1, k)
        /\ kvLog[i].value.present
        /\ kvStore[k] = kvLog[i].value

----------------------------------------------------------------------------
\* ai.chat: the message sequence of the request

\* C24: args.messages of every ai.chat request is exactly the normalized
\* message sequence that passed validation, args.stream is set only in a
\* streaming request, and no key of the caller's options can replace the
\* message sequence.
C24_MessagesAreTheValidatedSequence ==
    \A i \in ChatRequests :
        /\ ValidationError(MessagesOf(chatArgs.prompt)) = Nil
        /\ chatNet[i].args.messages = MessagesOf(chatArgs.prompt)
        /\ chatNet[i].args.stream = IsStream(Classified(chatArgs.extra).options)

----------------------------------------------------------------------------
\* apps.create: the URL written by step 4

\* The requests of step 4 issued so far.
LinkRequests == {i \in 1..Len(net) : StepOf(net[i]) = 4}

\* C27: the record apps.create resolves with carries as index_url the
\* https://{subdomain}.puter.site URL that step 4 wrote.
C27_ReturnedUrlIsTheOneWritten ==
    pc = "Done" =>
        \E i \in LinkRequests : outcome.value.index_url = net[i].args.index_url

\* C28: the subdomain name of step 4 is the non-empty name step 3 returned,
\* and step 4 is never requested when step 3 returned no subdomain record.
C28_LinkUsesTheReturnedSubdomain ==
    \A i \in LinkRequests :
        /\ subdomainResponse # Nil
        /\ subdomainResponse.subdomain # None
        /\ net[i].args.index_url =
               "https://" \o subdomainResponse.subdomain \o ".puter.site"

----------------------------------------------------------------------------
\* Session: signOut against a signIn in flight

\* C29: after signOut has returned the session stays signed out (no token,
\* no Authorization default header) until a later signIn or setToken is
\* started: a signIn that was in flight when signOut ran cannot sign the
\* session back in.
C29_SignOutIsFinal ==
    signedOut => token = None /\ defaultAuth = Nil

----------------------------------------------------------------------------
\* sites.create: availability test before the create request

\* The create requests an invocation has issued.
SiteCreateRequests(p) ==
    {i \in 1..Len(siteNet[p]) : siteNet[p][i].method = "create"}

\* C25: sites.create first lists the subdomains; when the name is in the
\* listing it fails with 'Subdomain already exists' and issues no create
\* request; otherwise it issues exactly one create request, after the
\* listing has returned.
C25_ListThenCreateOnce ==
    \A p \in Invocations :
        /\ siteNet[p] # <<>> => siteNet[p][1] = ListRequest
        /\ existing[p] = Nil => SiteCreateRequests(p) = {}
        /\ existing[p] # Nil =>
               IF siteArgs[p].name \in existing[p].subdomains
               THEN /\ SiteCreateRequests(p) = {}
                    /\ siteOutcome[p] = Rejected(NewError("Subdomain already exists"))
               ELSE /\ SiteCreateRequests(p) = {2}
                    /\ Len(siteNet[p]) = 2
                    /\ siteNet[p][2].args.subdomain = siteArgs[p].name

\* One invocation created a site and the other, called with the same name,
\* was refused after its listing.
C25_Witness ==
    \E p, q \in Invocations :
        /\ sitePc[p] = "Done"
        /\ SiteCreateRequests(p) = {2}
        /\ sitePc[q] = "Failed"
        /\ existing[q] # Nil
        /\ siteArgs[q].name = siteArgs[p].name
        /\ siteOutcome[q] = Rejected(NewError("Subdomain already exists"))
        /\ Len(siteNet[q]) = 1

\* C30: two concurrent sites.create invocations for the same name never
\* both issue a create request.
C30_OneCreatePerName ==
    \A p, q \in Invocations :
        (p # q /\ sitePc[p] = "Creating" /\ sitePc[q] = "Creating")
            => siteArgs[p].name # siteArgs[q].name

----------------------------------------------------------------------------
\* fs.rename: the uid of /stat and the last segment of the new path

\* name is the last segment of path: it has no '/' and path is name
\* itself or ends in '/' followed by name.
IsLastSegmentOf(name, path) ==
    /\ \A i \in 1..Len(name) : name[i] # "/"
    /\ Len(name) <= Len(path)
    /\ SubSeq(path, Len(path) - Len(name) + 1, Len(path)) = name
    /\ Len(name) < Len(path) => path[Len(path) - Len(name)] = "/"

\* C26: fs.rename requests /stat for the old path and then /rename with
\* the uid that /stat returned and the last segment of the new path; when
\* /stat fails no /rename is requested.
C26_RenameUsesStatUid ==
    /\ renameNet # <<>> => renameNet[1] = StatRequest(renameArgs.oldPath)
    /\ Len(renameNet) <= 2
    /\ Len(renameNet) = 2 =>
           /\ statResponse # Nil
           /\ renameNet[2].url = "/rename"
           /\ renameNet[2].uid = statResponse.uid
           /\ IsLastSegmentOf(renameNet[2].new_name, renameArgs.newPath)
    /\ (renamePc = "Failed" /\ statResponse = Nil) =>
           /\ Len(renameNet) = 1
           /\ ~renameOutcome.ok

\* A rename to a path with a directory part was carried out.
C26_Witness ==
    /\ renamePc = "Done"
    /\ renameArgs.newPath = <<"/", "a", "b">>
    /\ renameNet[2] = RenameRequest("uid-1", <<"a", "b">>)

============================================================================
